---- MODULE Spec2Model ----
(***************************************************************************)
(* The playback controller of src/app/page.tsx (component Home): the refs  *)
(* and React state it owns, the browser facilities it drives (the          *)
(* animation-frame queue, the speech synthesiser, the audio element, the   *)
(* audio context) and one action per event handler.                        *)
(*                                                                         *)
(* Units.  Time is counted in tenths of a millisecond (Scale units per ms) *)
(* so that the duration multiplier 78 - rate*6 is an integer for every     *)
(* step (0.05) of the rate slider.  Real-valued pose fields are counted in *)
(* thousandths; eased progress in ten-thousandths.  Math.sin, Math.cos and *)
(* Math.pow(x, 0.9 / 0.92) are computed by integer approximations (SinPm,  *)
(* Pow09, Pow092), everything else by the code's arithmetic.               *)
(***************************************************************************)
EXTENDS Integers, Sequences, FiniteSets, TLC

VARIABLES
    \* React state of Home (page.tsx 42-56)
    mode, script, emotion, status, isPreviewing, progress, avatarState,
    speechRate, speechPitch, audioUrl,
    \* refs of Home (page.tsx 58-70)
    utteranceRef, animationFrameRef, timelineRef, audioContextRef,
    analyserRef, audioSourceRef, lastBlinkRef, blinkIntervalRef,
    lastEmotionPulseRef,
    \* the browser: clock, animation-frame queue, speech queue, audio
    \* element, calls of playAudioFile suspended at `await ctx.resume()`
    now, rafQueue, utterances, audio, resumeQueue,
    \* history: the handler that ran last, and what it saw
    last

vars == << mode, script, emotion, status, isPreviewing, progress, avatarState,
           speechRate, speechPitch, audioUrl, utteranceRef, animationFrameRef,
           timelineRef, audioContextRef, analyserRef, audioSourceRef,
           lastBlinkRef, blinkIntervalRef, lastEmotionPulseRef,
           now, rafQueue, utterances, audio, resumeQueue, last >>

-----------------------------------------------------------------------------
(* Bounds of the model *)

\* the clock stops advancing at MaxTime (tenths of ms)
MaxTime == 30000
\* the clock advances by ClockStep between handlers (tenths of ms)
ClockStep == 10000
\* speech utterances the synthesiser holds at once
MaxUtterances == 2
\* callbacks in the animation-frame queue at once
MaxFrames == 2
\* longest script drawn by the text-builder specification
MaxLen == 4
\* how long the page stays idle before the first command, in the
\* specification of late runs (tenths of ms)
LateStart == 70000

-----------------------------------------------------------------------------
(* Program constants *)

Scale == 10
Ms(x) == x * Scale

NaN == -999999
Undefined == 0
Null == 0

BaseOffset == 240
PunctuationBoost == 420
DefaultMultiplier == 82
FallbackSeconds == 8
FftSize == 512
LevelCeiling == 180
InitialBlinkInterval == 4000
BlinkMin == 2500
BlinkSpan == 3200
BlinkWindow == 180
EmotionPulsePeriod == 6000

Emotions == {"neutral", "happy", "sad", "angry", "surprised"}

-----------------------------------------------------------------------------
(* Arithmetic *)

Min(a, b) == IF a <= b THEN a ELSE b
Max(a, b) == IF a >= b THEN a ELSE b
Abs(a) == IF a < 0 THEN -a ELSE a

\* JavaScript arithmetic propagates NaN
IsNaN(x) == x = NaN
MathMin(a, b) == IF IsNaN(a) \/ IsNaN(b) THEN NaN ELSE Min(a, b)
MathMax(a, b) == IF IsNaN(a) \/ IsNaN(b) THEN NaN ELSE Max(a, b)

\* a * b for thousandths
MulPm(a, b) == IF IsNaN(a) \/ IsNaN(b) THEN NaN ELSE (a * b) \div 1000

\* Math.sin of an angle in hundredths of a radian, in thousandths
\* (Bhaskara's approximation on each half period)
HalfTurn == 314
SinHalf(x) == (16000 * (x * (HalfTurn - x))) \div (5 * HalfTurn * HalfTurn - 4 * (x * (HalfTurn - x)))
SinPm(x) ==
    IF IsNaN(x) THEN NaN
    ELSE LET r == x % (2 * HalfTurn)
         IN IF r <= HalfTurn THEN SinHalf(r) ELSE -SinHalf(r - HalfTurn)
CosPm(x) == IF IsNaN(x) THEN NaN ELSE SinPm(x + HalfTurn \div 2)

\* Math.pow(ratio, 0.9) and Math.pow(ratio, 0.92) for ratio in thousandths,
\* in ten-thousandths: the exact values at the deciles, linear in between
Pow09Table == << 0, 1259, 2349, 3384, 4384, 5359, 6314, 7254, 8181, 9095, 10000 >>
Pow092Table == << 0, 1202, 2275, 3303, 4304, 5285, 6250, 7203, 8144, 9076, 10000 >>
Interpolate(table, pm) ==
    LET i == pm \div 100
        f == pm % 100
    IN IF i >= 10 THEN table[11]
       ELSE table[i + 1] + ((table[i + 2] - table[i + 1]) * f) \div 100
\* Math.pow(0.9, ratio), the arguments exchanged: it falls from 1 to 0.9
Pow09Swapped(pm) == 10000 - pm
Pow09(pm) == Interpolate(Pow09Table, pm)
Pow092(pm) == Interpolate(Pow092Table, pm)

\* round(value, decimals) of a percentage counted in hundredths of a percent
\* (two decimals): Math.round(value * 10^decimals) / 10^decimals, counted in
\* units of 10^-decimals percent; Math.round rounds a half upwards
round(value, decimals) ==
    LET factor == IF decimals = 1 THEN 10 ELSE 100
    IN (value + factor \div 2) \div factor

-----------------------------------------------------------------------------
(* Strings: a string is a sequence of one-character strings *)

Whitespace == {" ", "\n"}
Letters == {"a", "b", "H", "e", "l", "o", "t", "h", "r"}
Terminal == {",", ".", "!", "?"}
Space == << " " >>

IsSpace(c) == c \in Whitespace
IsLetter(c) == c \in Letters

RECURSIVE CollapseWhitespace(_)
\* text.replace(/\s+/g, " ")
CollapseWhitespace(s) ==
    IF s = << >> THEN << >>
    ELSE IF IsSpace(Head(s))
         THEN IF Len(s) > 1 /\ IsSpace(s[2])
              THEN CollapseWhitespace(Tail(s))
              ELSE Space \o CollapseWhitespace(Tail(s))
         ELSE << Head(s) >> \o CollapseWhitespace(Tail(s))

RECURSIVE TrimLeft(_)
TrimLeft(s) ==
    IF s # << >> /\ IsSpace(Head(s)) THEN TrimLeft(Tail(s)) ELSE s

RECURSIVE TrimRight(_)
TrimRight(s) ==
    IF s # << >> /\ IsSpace(s[Len(s)])
    THEN TrimRight(SubSeq(s, 1, Len(s) - 1))
    ELSE s

\* .trim()
Trim(s) == TrimRight(TrimLeft(s))

RECURSIVE SplitAcc(_, _)
\* .split(" "): cur is the piece being read
SplitAcc(s, cur) ==
    IF s = << >> THEN << cur >>
    ELSE IF Head(s) = " "
         THEN << cur >> \o SplitAcc(Tail(s), << >>)
         ELSE SplitAcc(Tail(s), Append(cur, Head(s)))
Split(s) == SplitAcc(s, << >>)

\* .filter(Boolean)
FilterBoolean(pieces) == SelectSeq(pieces, LAMBDA p : p # << >>)

\* the tokens without .trim() and .filter(Boolean)
TokenizeUntrimmed(text) == Split(CollapseWhitespace(text))

Tokenize(text) == FilterBoolean(Split(Trim(CollapseWhitespace(text))))

\* token.replace(/[^a-z]/gi, "").length
LetterCount(token) == Len(SelectSeq(token, IsLetter))

\* /[,.!?]$/.test(token)
EndsWithPunctuation(token) == token # << >> /\ token[Len(token)] \in Terminal

\* SegmentDuration without the `|| 1` of line 220
SegmentDurationNoFloor(token, durationMultiplier) ==
    LET letters == LetterCount(token)
        punctuationBoost == IF EndsWithPunctuation(token) THEN Ms(PunctuationBoost) ELSE 0
    IN letters * durationMultiplier + Ms(BaseOffset) + punctuationBoost

\* SegmentDuration as letters * multiplier alone
SegmentDurationLettersOnly(token, durationMultiplier) ==
    LetterCount(token) * durationMultiplier

\* one element of tokens.map(...): letters * multiplier + 240 + boost
SegmentDuration(token, durationMultiplier) ==
    LET n == LetterCount(token)
        letters == IF n = 0 THEN 1 ELSE n
        punctuationBoost == IF EndsWithPunctuation(token) THEN Ms(PunctuationBoost) ELSE 0
    IN letters * durationMultiplier + Ms(BaseOffset) + punctuationBoost

RECURSIVE SumSeq(_)
\* segments.reduce((acc, item) => acc + item, 0)
SumSeq(s) == IF s = << >> THEN 0 ELSE Head(s) + SumSeq(Tail(s))

NoTimeline == [mode |-> "none"]

\* the object startTextTimeline stores in timelineRef
TextTimeline(text, durationMultiplier, startTime, em) ==
    LET tokens == Tokenize(text)
        segments == [i \in 1..Len(tokens) |-> SegmentDuration(tokens[i], durationMultiplier)]
    IN [mode |-> "text", startTime |-> startTime, duration |-> SumSeq(segments),
        tokens |-> tokens, segments |-> segments, emotion |-> em]

\* (audio.duration) * 1000 without the `|| 8` of line 334
AudioTimelineDurationNoFallback(audioDuration) == audioDuration

\* the object playAudioFile stores in timelineRef; audio.duration is counted
\* in time units here (seconds * 1000 are ms); NaN (not yet decoded) and 0
\* are the falsy values `|| 8` replaces
AudioTimelineDuration(audioDuration) ==
    IF IsNaN(audioDuration) \/ audioDuration = 0
    THEN Ms(FallbackSeconds * 1000)
    ELSE audioDuration
AudioTimeline(audioDuration, startTime, em) ==
    [mode |-> "audio", startTime |-> startTime,
     duration |-> AudioTimelineDuration(audioDuration),
     tokens |-> << >>, segments |-> << >>, emotion |-> em]

\* 78 - speechRate * 6 + (speechPitch > 1 ? -4 : 0); rate and pitch are
\* counted in twentieths (the sliders' step is 0.05)
DurationMultiplier(rate, pitch) ==
    Ms(78) - 3 * rate + (IF pitch > 20 THEN -Ms(4) ELSE 0)

-----------------------------------------------------------------------------
(* The pose (AvatarVisualState), in thousandths *)

IdleLabel == << "I", "d", "l", "e" >>
ExpressingLabel == << "E", "x", "p", "r", "e", "s", "s", "i", "n", "g" >>
EnergySuffix == << "%", " ", "e", "n", "e", "r", "g", "y" >>
DigitChars == << "0", "1", "2", "3", "4", "5", "6", "7", "8", "9" >>

RECURSIVE DigitsOf(_)
\* `${n}` for n >= 0
DigitsOf(n) ==
    IF n < 10 THEN << DigitChars[n + 1] >>
    ELSE DigitsOf(n \div 10) \o << DigitChars[(n % 10) + 1] >>

\* the fields stopAllPlayback writes
RestPose(prev) ==
    [prev EXCEPT !.mouthOpenness = 0, !.mouthWidth = 500, !.mouthRoundness = 200,
                 !.eyeOffsetX = 0, !.eyeOffsetY = 0, !.blink = 0, !.handCycle = 0,
                 !.timelineLabel = IdleLabel, !.audioLevel = 0,
                 !.emotionIntensity = 250]

\* defaultVisualState of ./lib/avatars
defaultVisualState ==
    [emotion |-> "neutral", emotionIntensity |-> 250, mouthOpenness |-> 0,
     mouthRoundness |-> 200, mouthWidth |-> 500, headTilt |-> 0, headTurn |-> 0,
     browLift |-> 200, eyeOffsetX |-> 0, eyeOffsetY |-> 0, blink |-> 0,
     handCycle |-> 0, shimmer |-> 0, timelineLabel |-> IdleLabel, audioLevel |-> 0]

-----------------------------------------------------------------------------
(* The state as one record, so that a handler is a function of the state *)

Cur ==
    [mode |-> mode, script |-> script, emotion |-> emotion, status |-> status,
     isPreviewing |-> isPreviewing, progress |-> progress,
     avatarState |-> avatarState, speechRate |-> speechRate,
     speechPitch |-> speechPitch, audioUrl |-> audioUrl,
     utteranceRef |-> utteranceRef, animationFrameRef |-> animationFrameRef,
     timelineRef |-> timelineRef, audioContextRef |-> audioContextRef,
     analyserRef |-> analyserRef, audioSourceRef |-> audioSourceRef,
     lastBlinkRef |-> lastBlinkRef, blinkIntervalRef |-> blinkIntervalRef,
     lastEmotionPulseRef |-> lastEmotionPulseRef, now |-> now,
     rafQueue |-> rafQueue, utterances |-> utterances, audio |-> audio,
     resumeQueue |-> resumeQueue, last |-> last]

Commit(s) ==
    /\ mode' = s.mode
    /\ script' = s.script
    /\ emotion' = s.emotion
    /\ status' = s.status
    /\ isPreviewing' = s.isPreviewing
    /\ progress' = s.progress
    /\ avatarState' = s.avatarState
    /\ speechRate' = s.speechRate
    /\ speechPitch' = s.speechPitch
    /\ audioUrl' = s.audioUrl
    /\ utteranceRef' = s.utteranceRef
    /\ animationFrameRef' = s.animationFrameRef
    /\ timelineRef' = s.timelineRef
    /\ audioContextRef' = s.audioContextRef
    /\ analyserRef' = s.analyserRef
    /\ audioSourceRef' = s.audioSourceRef
    /\ lastBlinkRef' = s.lastBlinkRef
    /\ blinkIntervalRef' = s.blinkIntervalRef
    /\ lastEmotionPulseRef' = s.lastEmotionPulseRef
    /\ now' = s.now
    /\ rafQueue' = s.rafQueue
    /\ utterances' = s.utterances
    /\ audio' = s.audio
    /\ resumeQueue' = s.resumeQueue
    /\ last' = s.last

-----------------------------------------------------------------------------
(* Browser facilities *)

\* an id no pending callback has and animationFrameRef does not hold: ids
\* are only ever compared, so the least unused one stands for the next one
FreshFrameId(s) ==
    CHOOSE i \in 1..(Cardinality(s.rafQueue) + 2) :
        /\ i # s.animationFrameRef
        /\ \A cb \in s.rafQueue : cb.id # i
        /\ \A j \in 1..(i - 1) : j = s.animationFrameRef \/ \E cb \in s.rafQueue : cb.id = j

\* animationFrameRef.current = requestAnimationFrame(fn); a callback
\* carries what its closure captured: driveAudioTimeline reads the emotion
\* and isPreviewing of the render that created it, updateAnimation neither
requestAnimationFrame(s, fn, capturedEmotion, capturedPreviewing) ==
    LET id == FreshFrameId(s)
    IN [s EXCEPT !.rafQueue = @ \cup {[id |-> id, fn |-> fn,
                                       emotion |-> capturedEmotion,
                                       isPreviewing |-> capturedPreviewing]},
                 !.animationFrameRef = id]

\* cancelAnimationFrame(id): a no-op when no pending callback has the id
cancelAnimationFrame(s, id) ==
    [s EXCEPT !.rafQueue = {cb \in @ : cb.id # id}]

\* window.speechSynthesis.cancel(): every utterance leaves the queue; one
\* that was being spoken is interrupted, one that was waiting is canceled
CancelledState(st) ==
    IF st = "speaking" THEN "interrupted"
    ELSE IF st = "queued" THEN "canceled" ELSE st
speechSynthesisCancel(s) ==
    [s EXCEPT !.utterances = {[u EXCEPT !.st = CancelledState(u.st)] : u \in @}]

FreshUtteranceId(s) ==
    CHOOSE i \in 1..(Cardinality(s.utterances) + 2) :
        /\ i # s.utteranceRef
        /\ \A u \in s.utterances : u.id # i
        /\ \A j \in 1..(i - 1) : j = s.utteranceRef \/ \E u \in s.utterances : u.id = j

-----------------------------------------------------------------------------
(* Teardown: page.tsx 84-135 *)

resetAnimationFrame(s) ==
    IF s.animationFrameRef # Undefined
    THEN [cancelAnimationFrame(s, s.animationFrameRef) EXCEPT !.animationFrameRef = Undefined]
    ELSE s

\* stopSpeech clearing the ref without speechSynthesis.cancel()
stopSpeechKeepsQueue(s) == [s EXCEPT !.utteranceRef = Null]

stopSpeech(s) ==
    IF s.utteranceRef # Null
    THEN [speechSynthesisCancel(s) EXCEPT !.utteranceRef = Null]
    ELSE s

stopAudioPlayback(s) ==
    [s EXCEPT !.audio.paused = TRUE, !.audio.currentTime = 0,
              !.audioSourceRef = FALSE, !.analyserRef = FALSE]

\* stopAllPlayback easing emotionIntensity towards its rest value instead
\* of setting it
stopAllPlaybackEasesPose(s) ==
    LET s1 == stopAudioPlayback(stopSpeech(resetAnimationFrame(s)))
        prev == s1.avatarState
    IN [s1 EXCEPT !.timelineRef = NoTimeline, !.isPreviewing = FALSE,
                  !.progress = 0,
                  !.avatarState = [RestPose(prev) EXCEPT
                      !.emotionIntensity = (prev.emotionIntensity + 250) \div 2]]

\* stopAllPlayback putting the whole pose back to defaultVisualState
stopAllPlaybackResetsPose(s) ==
    LET s1 == stopAudioPlayback(stopSpeech(resetAnimationFrame(s)))
    IN [s1 EXCEPT !.timelineRef = NoTimeline, !.isPreviewing = FALSE,
                  !.progress = 0, !.avatarState = defaultVisualState]

\* stopAllPlayback without `timelineRef.current = null`
stopAllPlaybackKeepsTimeline(s) ==
    LET s1 == stopAudioPlayback(stopSpeech(resetAnimationFrame(s)))
    IN [s1 EXCEPT !.isPreviewing = FALSE,
                  !.progress = 0, !.avatarState = RestPose(@)]

stopAllPlayback(s) ==
    LET s1 == stopAudioPlayback(stopSpeech(resetAnimationFrame(s)))
    IN [s1 EXCEPT !.timelineRef = NoTimeline, !.isPreviewing = FALSE,
                  !.progress = 0, !.avatarState = RestPose(@)]

-----------------------------------------------------------------------------
(* What a handler leaves in `last` *)

\* the handler that left l ended with stopAllPlayback
PostTeardown(l) ==
    \/ l.op \in {"stop", "image", "upload", "ended", "error"}
    \/ l.op = "tick" /\ l.ran /\ l.done

\* op: the handler; fn: the function that ran; ran: it got past its early
\* returns; done: a tick saw elapsed >= duration; wasRunning: a timeline
\* was active when the handler began; again: a bare stopAllPlayback that
\* began in a state a teardown had left
Note(s, op, fn, ran, done) ==
    [op |-> op, fn |-> fn, ran |-> ran, done |-> done,
     wasRunning |-> s.timelineRef # NoTimeline,
     again |-> op \in {"stop", "image"} /\ PostTeardown(s.last)]

-----------------------------------------------------------------------------
(* The text-mode tick: updateAnimation, page.tsx 137-209 *)

\* an angle in hundredths of a radian: t / divisor, t a time and divisor in ms
Angle(t, divisor) == (t * 100) \div Ms(divisor)
\* ratio * turns * pi, ratio in thousandths
RatioAngle(ratioPm, halfTurns) == (ratioPm * halfTurns * HalfTurn) \div 1000

RECURSIVE FirstReachedStrict(_, _, _, _)
\* the loop of lines 158-164 with `clampedElapsed < accumulated`
FirstReachedStrict(segments, i, accumulated, clampedElapsed) ==
    IF i > Len(segments) THEN 0
    ELSE IF clampedElapsed < accumulated + segments[i] THEN i
         ELSE FirstReachedStrict(segments, i + 1, accumulated + segments[i], clampedElapsed)

RECURSIVE FirstReached(_, _, _, _)
\* the loop of lines 158-164: the first index (from 1) whose accumulated
\* duration reaches clampedElapsed, or 0 when the loop ends without a break
FirstReached(segments, i, accumulated, clampedElapsed) ==
    IF i > Len(segments) THEN 0
    ELSE IF clampedElapsed <= accumulated + segments[i] THEN i
         ELSE FirstReached(segments, i + 1, accumulated + segments[i], clampedElapsed)

\* activeIndex, counted from 1 (0 is the index -1 of an empty token list)
ActiveIndex(timeline, clampedElapsed) ==
    LET i == FirstReached(timeline.segments, 1, 0, clampedElapsed)
    IN IF i = 0 THEN Len(timeline.tokens) ELSE i

\* `accumulated` when the loop is left
Accumulated(timeline, clampedElapsed) ==
    LET i == FirstReached(timeline.segments, 1, 0, clampedElapsed)
    IN IF i = 0 THEN SumSeq(timeline.segments)
       ELSE SumSeq(SubSeq(timeline.segments, 1, i))

\* timeline.tokens[activeIndex] ?? ""
ActiveToken(timeline, clampedElapsed) ==
    LET i == ActiveIndex(timeline, clampedElapsed)
    IN IF i \in 1..Len(timeline.tokens) THEN timeline.tokens[i] ELSE << >>

\* timeline.segments[activeIndex]: undefined behaves as NaN in arithmetic
ActiveSegment(timeline, clampedElapsed) ==
    LET i == ActiveIndex(timeline, clampedElapsed)
    IN IF i \in 1..Len(timeline.segments) THEN timeline.segments[i] ELSE NaN

PhoneticEnergy(token) == Min(1000, (LetterCount(token) * 1000) \div 6 + 200)

LocalRatio(timeline, clampedElapsed) ==
    LET seg == ActiveSegment(timeline, clampedElapsed)
        localElapsed == IF IsNaN(seg) THEN NaN
                        ELSE clampedElapsed - (Accumulated(timeline, clampedElapsed) - seg)
        localDuration == IF IsNaN(seg) \/ seg = 0 THEN Ms(1) ELSE seg
    IN IF IsNaN(localElapsed) THEN NaN
       ELSE Max(0, Min(1000, (localElapsed * 1000) \div localDuration))

LocalEnvelope(timeline, clampedElapsed) ==
    LET r == LocalRatio(timeline, clampedElapsed)
    IN IF IsNaN(r) THEN NaN ELSE SinPm((r * HalfTurn) \div 1000)

\* Math.max(0, 1 - Math.abs((blinkNow % 180) - 90) / 90)
BlinkPhase(blinkNow) ==
    Max(0, 1000 - (Abs((blinkNow % Ms(BlinkWindow)) - Ms(BlinkWindow \div 2)) * 1000)
                    \div Ms(BlinkWindow \div 2))

\* ratio of the text tick, in thousandths
TextRatio(elapsed, duration) ==
    IF duration = 0 THEN 0 ELSE (Min(elapsed, duration) * 1000) \div duration

Plus(a, b) == IF IsNaN(a) \/ IsNaN(b) THEN NaN ELSE a + b

\* the object of lines 182-200
TextPose(prev, timeline, t, blinkNow, lastEmotionPulse) ==
    LET elapsed == t - timeline.startTime
        duration == timeline.duration
        clampedElapsed == Min(elapsed, duration)
        ratio == TextRatio(elapsed, duration)
        baseEmotion == timeline.emotion
        token == ActiveToken(timeline, clampedElapsed)
        phoneticEnergy == PhoneticEnergy(token)
        localEnvelope == LocalEnvelope(timeline, clampedElapsed)
        audioLevel == MathMax(50, MulPm(localEnvelope, phoneticEnergy))
        emotionPulse ==
            (SinPm(((t - lastEmotionPulse) * 2 * HalfTurn) \div Ms(EmotionPulsePeriod)) * 150)
                \div 1000 + 850
        emotionIntensity == Min(1000, 300 + MulPm(emotionPulse, 500 + phoneticEnergy \div 2))
        blinkPhase == BlinkPhase(blinkNow)
    IN [prev EXCEPT
          !.emotion = baseEmotion,
          !.emotionIntensity = emotionIntensity,
          !.mouthOpenness = audioLevel,
          !.mouthRoundness = 350 - (phoneticEnergy * 12) \div 100
                             + (IF baseEmotion = "surprised" THEN 250 ELSE 0),
          !.mouthWidth = 550 + (phoneticEnergy * 3) \div 10,
          !.headTilt = SinPm(RatioAngle(ratio, 2) + phoneticEnergy \div 10) * 6
                       + (IF baseEmotion = "happy" THEN 3000
                          ELSE IF baseEmotion = "sad" THEN -4000 ELSE 0),
          !.headTurn = SinPm(Angle(t, 1200)) * 4 + CosPm(RatioAngle(ratio, 4)) * 3,
          !.browLift = Plus(Plus(200, MulPm(localEnvelope, 500)),
                            IF baseEmotion = "angry" THEN -200 ELSE 0),
          !.eyeOffsetX = (SinPm(Angle(t, 800)) * 7) \div 10
                         + (SinPm(RatioAngle(ratio, 6)) * 2) \div 10,
          !.eyeOffsetY = (CosPm(Angle(t, 1000)) * 3) \div 10
                         + (IF baseEmotion = "sad" THEN 200 ELSE 0),
          !.blink = MulPm(Min(1000, blinkPhase), Min(1000, blinkPhase)),
          !.handCycle = MulPm(SinPm(RatioAngle(ratio, 2) + phoneticEnergy \div 5),
                              phoneticEnergy),
          !.shimmer = SinPm(Angle(t, 320)) \div 2 + 500,
          !.timelineLabel = IF token # << >> THEN token ELSE ExpressingLabel,
          !.audioLevel = audioLevel]

\* updateAnimation; nextBlink is the value 2500 + Math.random() * 3200 takes
updateAnimation(s, nextBlink) ==
    LET timeline == s.timelineRef IN
    IF timeline = NoTimeline
    THEN [s EXCEPT !.last = Note(s, "tick", "updateAnimation", FALSE, FALSE)]
    ELSE
    LET elapsed == s.now - timeline.startTime
        duration == timeline.duration
        easedProgress == Pow09(TextRatio(elapsed, duration))
        blinkNow == s.now - s.lastBlinkRef
        blinked == blinkNow > s.blinkIntervalRef
        pulsed == s.now - s.lastEmotionPulseRef > Ms(EmotionPulsePeriod)
        lastEmotionPulse == IF pulsed THEN s.now ELSE s.lastEmotionPulseRef
        s1 == [s EXCEPT
                 !.lastBlinkRef = IF blinked THEN s.now ELSE @,
                 !.blinkIntervalRef = IF blinked THEN nextBlink ELSE @,
                 !.lastEmotionPulseRef = lastEmotionPulse,
                 !.avatarState = TextPose(@, timeline, s.now, blinkNow, lastEmotionPulse),
                 !.progress = round(easedProgress, 1),
                 !.last = Note(s, "tick", "updateAnimation", TRUE, ~(elapsed < duration))]
    IN IF elapsed < duration
       THEN requestAnimationFrame(s1, "updateAnimation", "neutral", FALSE)
       ELSE [stopAllPlayback(s1) EXCEPT !.status = "Preview complete"]

-----------------------------------------------------------------------------
(* The audio-mode tick: driveAudioTimeline, page.tsx 268-313 *)

\* Math.min(1, avg / 180): the array has fftSize entries, of which
\* getByteFrequencyData fills the first frequencyBinCount = fftSize / 2
\* (here all with the magnitude `bin`) and leaves the rest 0
Level(bin) ==
    LET sum == bin * (FftSize \div 2)
    IN Min(1000, (sum * 1000) \div (FftSize * LevelCeiling))

AudioRatio(elapsed, duration) ==
    IF duration = 0 THEN 0 ELSE Min(1000, (elapsed * 1000) \div duration)

\* x^8 for thousandths
Pow8(x) ==
    LET x2 == MulPm(x, x)
        x4 == MulPm(x2, x2)
    IN MulPm(x4, x4)

\* the object of lines 286-303
AudioPose(prev, timeline, t, level, capturedEmotion) ==
    LET ratio == AudioRatio(t - timeline.startTime, timeline.duration)
    IN [prev EXCEPT
          !.emotion = capturedEmotion,
          !.emotionIntensity = 300 + (level * 6) \div 10,
          !.mouthOpenness = 100 + (level * 11) \div 10,
          !.mouthWidth = 600 + (level * 35) \div 100,
          !.mouthRoundness = 300 - level \div 10,
          !.headTilt = MulPm(SinPm(Angle(t, 720)), 5000 + level * 6),
          !.headTurn = MulPm(CosPm(Angle(t, 960)), 4000 + level * 5),
          !.browLift = 150 + (level * 55) \div 100,
          !.eyeOffsetX = MulPm(SinPm(Angle(t, 640)), 600 + (level * 6) \div 10),
          !.eyeOffsetY = MulPm(SinPm(Angle(t, 820)), 400 + (level * 4) \div 10),
          !.blink = Pow8(SinPm(Angle(t, 1200)) \div 2 + 500),
          !.handCycle = MulPm(SinPm(Angle(t, 380)), 400 + (level * 7) \div 10),
          !.shimmer = SinPm(Angle(t, 220)) \div 2 + 500,
          !.timelineLabel = DigitsOf(ratio \div 10) \o EnergySuffix,
          !.audioLevel = level]

\* driveAudioTimeline writing the emotion selected now (as if it were read
\* from a ref) instead of the one its closure captured
driveAudioTimelineLiveEmotion(s, cb, bin) ==
    LET timeline == s.timelineRef IN
    IF ~s.analyserRef \/ timeline = NoTimeline
    THEN [s EXCEPT !.last = Note(s, "tick", "driveAudioTimeline", FALSE, FALSE)]
    ELSE
    LET elapsed == s.now - timeline.startTime
        duration == timeline.duration
        level == Level(bin)
        easedProgress == Pow092(AudioRatio(elapsed, duration))
        s1 == [s EXCEPT
                 !.avatarState = AudioPose(@, timeline, s.now, level, s.emotion),
                 !.progress = round(easedProgress, 1),
                 !.last = Note(s, "tick", "driveAudioTimeline", TRUE, ~(elapsed < duration))]
    IN IF elapsed < duration /\ cb.isPreviewing
       THEN requestAnimationFrame(s1, "driveAudioTimeline", cb.emotion, cb.isPreviewing)
       ELSE [stopAllPlayback(s1) EXCEPT !.status = "Preview complete"]

\* driveAudioTimeline rescheduling while elapsed <= duration
driveAudioTimelineLate(s, cb, bin) ==
    LET timeline == s.timelineRef IN
    IF ~s.analyserRef \/ timeline = NoTimeline
    THEN [s EXCEPT !.last = Note(s, "tick", "driveAudioTimeline", FALSE, FALSE)]
    ELSE
    LET elapsed == s.now - timeline.startTime
        duration == timeline.duration
        level == Level(bin)
        easedProgress == Pow092(AudioRatio(elapsed, duration))
        s1 == [s EXCEPT
                 !.avatarState = AudioPose(@, timeline, s.now, level, cb.emotion),
                 !.progress = round(easedProgress, 1),
                 !.last = Note(s, "tick", "driveAudioTimeline", TRUE, ~(elapsed < duration))]
    IN IF elapsed <= duration /\ cb.isPreviewing
       THEN requestAnimationFrame(s1, "driveAudioTimeline", cb.emotion, cb.isPreviewing)
       ELSE [stopAllPlayback(s1) EXCEPT !.status = "Preview complete"]

\* driveAudioTimeline as the callback cb captured it; bin is the magnitude
\* the analyser reports
driveAudioTimeline(s, cb, bin) ==
    LET timeline == s.timelineRef IN
    IF ~s.analyserRef \/ timeline = NoTimeline
    THEN [s EXCEPT !.last = Note(s, "tick", "driveAudioTimeline", FALSE, FALSE)]
    ELSE
    LET elapsed == s.now - timeline.startTime
        duration == timeline.duration
        level == Level(bin)
        easedProgress == Pow092(AudioRatio(elapsed, duration))
        s1 == [s EXCEPT
                 !.avatarState = AudioPose(@, timeline, s.now, level, cb.emotion),
                 !.progress = round(easedProgress, 1),
                 !.last = Note(s, "tick", "driveAudioTimeline", TRUE, ~(elapsed < duration))]
    IN IF elapsed < duration /\ cb.isPreviewing
       THEN requestAnimationFrame(s1, "driveAudioTimeline", cb.emotion, cb.isPreviewing)
       ELSE [stopAllPlayback(s1) EXCEPT !.status = "Preview complete"]

-----------------------------------------------------------------------------
(* Starting a run: page.tsx 211-266 and 315-357 *)

\* startTextTimeline returning early unless some token has a letter
startTextTimelineLettersOnly(s, text, durationMultiplier, capturedEmotion) ==
    IF \A i \in 1..Len(text) : ~IsLetter(text[i]) THEN s
    ELSE requestAnimationFrame(
             [s EXCEPT !.timelineRef =
                 TextTimeline(text, durationMultiplier, s.now, capturedEmotion)],
             "updateAnimation", "neutral", FALSE)

\* startTextTimeline(text, durationMultiplier) of the render whose selected
\* emotion was capturedEmotion
startTextTimeline(s, text, durationMultiplier, capturedEmotion) ==
    IF Len(Tokenize(text)) = 0 THEN s
    ELSE requestAnimationFrame(
             [s EXCEPT !.timelineRef =
                 TextTimeline(text, durationMultiplier, s.now, capturedEmotion)],
             "updateAnimation", "neutral", FALSE)

\* speakText: the utterance carries what its three handlers captured
speakText(s) ==
    LET s1 == [stopAllPlayback(s) EXCEPT !.status = "Synthesizing voice"]
        utterance == [id |-> FreshUtteranceId(s1), st |-> "queued",
                      script |-> s.script, rate |-> s.speechRate,
                      pitch |-> s.speechPitch, emotion |-> s.emotion]
        s2 == speechSynthesisCancel([s1 EXCEPT !.utteranceRef = utterance.id])
    IN [s2 EXCEPT !.utterances = @ \cup {utterance},
                  !.last = Note(s, "generate", "speakText", TRUE, FALSE)]

\* utterance.onstart
onstart(s, u) ==
    LET s1 == [s EXCEPT !.isPreviewing = TRUE, !.status = "Playing preview",
                        !.last = Note(s, "started", "onstart", TRUE, FALSE)]
    IN startTextTimeline(s1, u.script, DurationMultiplier(u.rate, u.pitch), u.emotion)

\* utterance.onend
onend(s) ==
    [stopAllPlayback(s) EXCEPT !.status = "Preview complete",
                               !.last = Note(s, "ended", "onend", TRUE, FALSE)]

\* utterance.onerror
onerror(s) ==
    [stopAllPlayback(s) EXCEPT !.status = "Speech synthesis error",
                               !.last = Note(s, "error", "onerror", TRUE, FALSE)]

\* playAudioFile up to `await ctx.resume()`.  ctx.createMediaElementSource
\* raises InvalidStateError for an element that was given a source node
\* before (Web Audio API), which ends the call after the teardown
playAudioFile(s) ==
    IF ~s.audioUrl
    THEN [s EXCEPT !.last = Note(s, "generate", "playAudioFile", FALSE, FALSE)]
    ELSE
    LET s1 == [stopAllPlayback(s) EXCEPT !.audioContextRef = TRUE,
                   !.last = Note(s, "generate", "playAudioFile", TRUE, FALSE)]
    IN IF s.audio.sourced THEN s1
       ELSE [s1 EXCEPT !.audioSourceRef = TRUE, !.analyserRef = TRUE,
                       !.audio.sourced = TRUE,
                       !.resumeQueue = Append(@, [emotion |-> s.emotion,
                                                  isPreviewing |-> s.isPreviewing])]

\* playAudioFile after the await, for the suspended call k
playAudioFileResumed(s, k) ==
    LET s1 == [s EXCEPT
                 !.timelineRef = AudioTimeline(s.audio.duration, s.now, k.emotion),
                 !.audio.currentTime = 0, !.audio.paused = FALSE,
                 !.isPreviewing = TRUE, !.status = "Analyzing audio",
                 !.last = Note(s, "resumed", "playAudioFile", TRUE, FALSE)]
    IN requestAnimationFrame(s1, "driveAudioTimeline", k.emotion, k.isPreviewing)

\* handleFileUpload, then the cleanup of the effect of lines 430-436, which
\* runs because audioUrl changed
handleFileUpload(s, duration) ==
    LET s1 == [s EXCEPT !.audioUrl = TRUE, !.mode = "audio", !.status = "Audio ready",
                        !.audio.duration = duration,
                        !.last = Note(s, "upload", "handleFileUpload", TRUE, FALSE)]
    IN stopAllPlayback(s1)

\* handleImageUpload, then the same cleanup (imagePreview changed)
handleImageUpload(s) ==
    stopAllPlayback([s EXCEPT !.last = Note(s, "image", "handleImageUpload", TRUE, FALSE)])

-----------------------------------------------------------------------------
(* Inputs of the model *)

BlankScript == << " ", "\n", " " >>
HelloScript == << "H", "e", "l", "l", "o", " ", "t", "h", "e", "r", "e", "." >>
ScriptChoices == {BlankScript, HelloScript}
EmotionChoices == {"neutral", "surprised"}
\* audio.duration of an uploaded clip: 0 (unavailable) or 2 s
AudioDurations == {0, Ms(2000)}
\* the same, and a clip that is not decoded yet
ClipDurations == AudioDurations \cup {NaN}
\* the magnitude the analyser reports in every bin
BinLevels == {90, 255}
\* values of 2500 + Math.random() * 3200
BlinkSamples == {Ms(BlinkMin), Ms(BlinkMin + BlinkSpan) - 1}

-----------------------------------------------------------------------------
(* The state machine *)

\* the refs and the state every construction starts with
InitRefs ==
    /\ mode = "text"
    /\ emotion = "neutral"
    /\ status = "Ready"
    /\ isPreviewing = FALSE
    /\ progress = 0
    /\ avatarState = defaultVisualState
    /\ audioUrl = FALSE
    /\ utteranceRef = Null
    /\ animationFrameRef = Undefined
    /\ timelineRef = NoTimeline
    /\ audioContextRef = FALSE
    /\ analyserRef = FALSE
    /\ audioSourceRef = FALSE
    /\ lastBlinkRef = 0
    /\ blinkIntervalRef = Ms(InitialBlinkInterval)
    /\ lastEmotionPulseRef = 0
    /\ now = 0
    /\ rafQueue = {}
    /\ utterances = {}
    /\ audio = [paused |-> TRUE, currentTime |-> 0, duration |-> 0, sourced |-> FALSE]
    /\ resumeQueue = << >>
    /\ last = [op |-> "init", fn |-> "none", ran |-> FALSE, done |-> FALSE,
               wasRunning |-> FALSE, again |-> FALSE]

Init ==
    /\ script \in ScriptChoices
    /\ speechRate = 20
    /\ speechPitch = 20
    /\ InitRefs

\* the mode buttons (lines 592, 601)
SetMode(m) ==
    /\ m # mode
    /\ Commit([Cur EXCEPT !.mode = m, !.last = Note(Cur, "setting", "setMode", TRUE, FALSE)])

\* the script textarea (line 613)
SetScript(text) ==
    /\ text # script
    /\ Commit([Cur EXCEPT !.script = text, !.last = Note(Cur, "setting", "setScript", TRUE, FALSE)])

\* the emotion buttons (line 702)
SetEmotion(e) ==
    /\ e # emotion
    /\ Commit([Cur EXCEPT !.emotion = e, !.last = Note(Cur, "setting", "setEmotion", TRUE, FALSE)])

\* the file input (line 669) with a clip of the given audio.duration
FileUpload(duration) ==
    /\ duration \in ClipDurations
    /\ Commit(handleFileUpload(Cur, duration))

\* the portrait input
ImageUpload ==
    /\ Commit(handleImageUpload(Cur))

\* the Stop button (line 502), disabled while isPreviewing is false
Stop ==
    /\ isPreviewing
    /\ Commit(stopAllPlayback([Cur EXCEPT !.last = Note(Cur, "stop", "stopAllPlayback", TRUE, FALSE)]))

\* handleGenerate in text mode
GenerateText ==
    /\ mode = "text"
    /\ Cardinality(utterances) < MaxUtterances
    /\ Commit(speakText(Cur))

\* handleGenerate in audio mode
GenerateAudio ==
    /\ mode = "audio"
    /\ Commit(playAudioFile(Cur))

\* ctx.resume() settles for the call that has waited longest
ResumeDone ==
    /\ resumeQueue # << >>
    /\ Cardinality(rafQueue) < MaxFrames
    /\ Commit(playAudioFileResumed([Cur EXCEPT !.resumeQueue = Tail(@)], Head(resumeQueue)))

\* the synthesiser begins to speak u
UtteranceStart(u) ==
    /\ u.st = "queued"
    /\ Cardinality(rafQueue) < MaxFrames
    /\ Commit(onstart([Cur EXCEPT !.utterances = (@ \ {u}) \cup {[u EXCEPT !.st = "speaking"]}], u))

\* the synthesiser reports the end of u: it was spoken to the end, or it
\* was interrupted by cancel() while being spoken
UtteranceEnd(u) ==
    /\ u.st \in {"speaking", "interrupted"}
    /\ Commit(onend([Cur EXCEPT !.utterances = @ \ {u}]))

\* the synthesiser reports an error for u
UtteranceError(u) ==
    Commit(onerror([Cur EXCEPT !.utterances = @ \ {u}]))

\* the synthesiser drops a cancelled utterance without an event
UtteranceDiscard(u) ==
    /\ u.st \in {"interrupted", "canceled"}
    /\ Commit([Cur EXCEPT !.utterances = @ \ {u},
                          !.last = Note(Cur, "discard", "none", FALSE, FALSE)])

\* the browser runs a pending animation-frame callback
Tick(cb) ==
    LET s == [Cur EXCEPT !.rafQueue = @ \ {cb}]
    IN IF cb.fn = "updateAnimation"
       THEN \E nextBlink \in BlinkSamples : Commit(updateAnimation(s, nextBlink))
       ELSE \E bin \in BinLevels : Commit(driveAudioTimeline(s, cb, bin))

\* time passes; a playing audio element moves on and pauses at its end
Advance ==
    /\ now + ClockStep <= MaxTime
    /\ LET t == audio.currentTime + ClockStep
           ends == audio.duration > 0 /\ t >= audio.duration
       IN Commit([Cur EXCEPT
                    !.now = @ + ClockStep,
                    !.audio.currentTime =
                        IF audio.paused \/ audio.duration <= 0 THEN @
                        ELSE IF ends THEN audio.duration ELSE t,
                    !.audio.paused = @ \/ ends])

Next ==
    \/ \E m \in {"text", "audio"} : SetMode(m)
    \/ \E d \in AudioDurations : FileUpload(d)
    \/ ImageUpload
    \/ Stop
    \/ GenerateText
    \/ GenerateAudio
    \/ ResumeDone
    \/ \E u \in utterances : UtteranceStart(u)
    \/ \E u \in utterances : UtteranceEnd(u)
    \/ \E u \in utterances : UtteranceError(u)
    \/ \E u \in utterances : UtteranceDiscard(u)
    \/ \E cb \in rafQueue : Tick(cb)
    \/ Advance

Spec == Init /\ [][Next]_vars

-----------------------------------------------------------------------------
(* The text timeline builder on its own: every short script over a small
   alphabet, at the ends and the middle of both sliders *)

BuilderAlphabet == {"a", ".", " ", "\n"}
BuilderScripts ==
    UNION {[1..n -> BuilderAlphabet] : n \in 0..MaxLen} \cup {HelloScript}
\* 0.6, 1 and 1.4; 0.6, 1 and 1.6
RateChoices == {12, 20, 28}
PitchChoices == {12, 20, 32}
\* every position of the rate slider (0.6 to 1.4) and of the pitch slider
\* (0.6 to 1.6), in twentieths
SliderRates == 12..28
SliderPitches == 12..32

InitBuilder ==
    /\ script \in BuilderScripts
    /\ speechRate \in RateChoices
    /\ speechPitch \in PitchChoices
    /\ InitRefs

NextBuilder ==
    \/ GenerateText
    \/ \E u \in utterances : UtteranceStart(u)

SpecBuilder == InitBuilder /\ [][NextBuilder]_vars

-----------------------------------------------------------------------------
(* Runs of "Hello there." during which the selected emotion changes *)

InitEmotion ==
    /\ Init
    /\ script = HelloScript

\* the emotion buttons are pressed while a run is under way or about to
\* start; a clip is uploaded once, before anything runs
NextEmotion ==
    \/ \E e \in EmotionChoices :
          /\ timelineRef # NoTimeline \/ utterances # {} \/ resumeQueue # << >>
          /\ SetEmotion(e)
    \/ SetMode("text")
    \/ /\ last.op = "init"
       /\ FileUpload(Ms(2000))
    \/ GenerateText
    \/ GenerateAudio
    \/ ResumeDone
    \/ \E u \in utterances : UtteranceStart(u)
    \/ \E u \in utterances : UtteranceDiscard(u)
    \/ \E cb \in rafQueue : Tick(cb)
    \/ Advance

SpecEmotion == InitEmotion /\ [][NextEmotion]_vars

-----------------------------------------------------------------------------
(* Text runs that begin after the page has been idle for LateStart, so that
   the blink interval and the emotion-pulse period have run out *)

\* nothing is pending after construction and time passes
IdleWait ==
    /\ last.op = "init"
    /\ now = 0
    /\ Commit([Cur EXCEPT !.now = LateStart])

InitLate ==
    /\ Init
    /\ script = HelloScript

NextLate ==
    \/ IdleWait
    \/ GenerateText
    \/ Stop
    \/ \E u \in utterances : UtteranceStart(u)
    \/ \E u \in utterances : UtteranceEnd(u)
    \/ \E cb \in rafQueue : Tick(cb)
    \/ Advance

SpecLate == InitLate /\ [][NextLate]_vars

-----------------------------------------------------------------------------
(* Audio runs that begin early or after the page has been idle for
   LateStart *)

NextLateAudio ==
    \/ IdleWait
    \/ /\ ~audioUrl
       /\ \E d \in ClipDurations : FileUpload(d)
    \/ GenerateAudio
    \/ ResumeDone
    \/ Stop
    \/ \E cb \in rafQueue : Tick(cb)
    \/ Advance

SpecLateAudio == InitLate /\ [][NextLateAudio]_vars

-----------------------------------------------------------------------------
(* Runs of either mode that are stopped, with the selected emotion changing
   while they are under way *)

NextStop ==
    \/ \E e \in EmotionChoices :
          /\ timelineRef # NoTimeline \/ utterances # {} \/ resumeQueue # << >>
          /\ SetEmotion(e)
    \/ /\ last.op = "init"
       /\ FileUpload(Ms(2000))
    \/ GenerateText
    \/ GenerateAudio
    \/ ResumeDone
    \/ \E u \in utterances : UtteranceStart(u)
    \/ \E cb \in rafQueue : Tick(cb)
    \/ Stop
    \/ Advance

SpecStop == InitEmotion /\ [][NextStop]_vars

-----------------------------------------------------------------------------
(* Vocabulary of the claims *)

Running == timelineRef # NoTimeline

\* the values stopAllPlayback gives the dynamic pose fields
PoseAtRest(pose) ==
    /\ pose.mouthOpenness = 0
    /\ pose.mouthWidth = 500
    /\ pose.mouthRoundness = 200
    /\ pose.eyeOffsetX = 0
    /\ pose.eyeOffsetY = 0
    /\ pose.blink = 0
    /\ pose.handCycle = 0
    /\ pose.audioLevel = 0
    /\ pose.emotionIntensity = 250
    /\ pose.timelineLabel = IdleLabel

\* the state of the controller proper (the refs and the React state)
Controller(s) ==
    << s.status, s.isPreviewing, s.progress, s.avatarState, s.utteranceRef,
       s.animationFrameRef, s.timelineRef, s.analyserRef, s.audioSourceRef,
       s.lastBlinkRef, s.blinkIntervalRef, s.lastEmotionPulseRef,
       s.rafQueue, s.utterances, s.audio >>

\* a pending callback that will run its body: updateAnimation needs only a
\* timeline, driveAudioTimeline the analyser as well
Effective(cb) == cb.fn = "updateAnimation" \/ analyserRef

-----------------------------------------------------------------------------
(* C1 *)

\* C1: at most one scheduled tick callback is pending in every reachable
\* state, and it is the one the controller tracks in animationFrameRef (a
\* tick scheduled for an earlier run is never still pending beside a later
\* run's).
C1_NoOverlappingTicks ==
    /\ Cardinality(rafQueue) <= 1
    /\ \A cb \in rafQueue : cb.id = animationFrameRef

-----------------------------------------------------------------------------
(* C2 *)

-----------------------------------------------------------------------------
(* C3 *)

\* C3: once the controller is Idle (no timeline), no tick callback is
\* scheduled.
C3_NoTickOnceIdle == ~Running => rafQueue = {}

-----------------------------------------------------------------------------
(* C4 *)

\* C4: after a stop no tick is pending, the timeline is discarded, the
\* previewing flag is false, progress is 0, the speech output is cancelled,
\* the audio element is paused at time 0 with source and analyser detached,
\* and the dynamic pose fields hold their rest values.
C4_StopLeavesRest ==
    last.op = "stop" =>
        /\ rafQueue = {}
        /\ animationFrameRef = Undefined
        /\ timelineRef = NoTimeline
        /\ ~isPreviewing
        /\ progress = 0
        /\ utteranceRef = Null
        /\ \A u \in utterances : u.st \notin {"queued", "speaking"}
        /\ audio.paused /\ audio.currentTime = 0
        /\ ~audioSourceRef /\ ~analyserRef
        /\ PoseAtRest(avatarState)

-----------------------------------------------------------------------------
(* C5 *)

\* C5: a teardown that begins in a state a teardown left changes nothing
\* of the controller: timeline, scheduled tick, previewing flag, progress
\* and every pose field stay as the previous stop left them.
C5_StopIdempotent ==
    [][((Stop \/ ImageUpload) /\ PostTeardown(last))
         => Controller(Cur)' = Controller(Cur)]_vars

C5_Witness ==
    /\ last.op = "image" /\ last.again
    /\ timelineRef = NoTimeline /\ PoseAtRest(avatarState)

-----------------------------------------------------------------------------
(* C6 *)

\* C6: in both modes a tick that observes elapsed >= duration schedules no
\* further tick (a scheduled tick would be the tracked one), tears down
\* (timeline discarded, pose at rest, progress 0, previewing false) and
\* sets the status to the complete message.
C6_CompletionTearsDown ==
    (last.op = "tick" /\ last.ran /\ last.done) =>
        /\ animationFrameRef = Undefined
        /\ timelineRef = NoTimeline
        /\ PoseAtRest(avatarState)
        /\ progress = 0
        /\ ~isPreviewing
        /\ status = "Preview complete"

C6_Witness ==
    /\ last.op = "tick" /\ last.fn = "driveAudioTimeline"
    /\ last.ran /\ last.done
    /\ timelineRef = NoTimeline

-----------------------------------------------------------------------------
(* C7 *)

\* C7: a tick of an audio run that observes elapsed < duration publishes
\* and reschedules: the run stays Running, a tick is pending, and the
\* complete status is not set before elapsed >= duration.
C7_AudioRunKeepsTicking ==
    (last.op = "tick" /\ last.fn = "driveAudioTimeline" /\ last.ran /\ ~last.done) =>
        /\ Running
        /\ rafQueue # {}
        /\ status # "Preview complete"

-----------------------------------------------------------------------------
(* C8 *)

\* C8: with an empty or whitespace-only script, neither the text generate
\* command nor the started signal creates a timeline or schedules a tick,
\* the previewing flag stays false and the status message is unchanged.
C8_BlankScriptStaysIdle ==
    [][(script = BlankScript /\ (GenerateText \/ \E u \in utterances : UtteranceStart(u)))
         => /\ timelineRef' \in {timelineRef, NoTimeline}
            /\ rafQueue' \subseteq rafQueue
            /\ ~isPreviewing'
            /\ status' = status]_vars

-----------------------------------------------------------------------------
(* C9 *)

\* C9: the controller is never left with an active timeline and nothing
\* that will end it: while a timeline is active, a tick that will run its
\* body is pending, or the synthesiser holds a live utterance, or a call of
\* playAudioFile is still to resume.
C9_NeverFrozen ==
    Running =>
        \/ \E cb \in rafQueue : Effective(cb)
        \/ \E u \in utterances : u.st \in {"queued", "speaking"}
        \/ resumeQueue # << >>

-----------------------------------------------------------------------------
(* C10 *)

\* the places where a whitespace-delimited token begins and ends
WordStarts(s) ==
    {i \in 1..Len(s) : ~IsSpace(s[i]) /\ (i = 1 \/ IsSpace(s[i - 1]))}
WordEnds(s) ==
    {i \in 1..Len(s) : ~IsSpace(s[i]) /\ (i = Len(s) \/ IsSpace(s[i + 1]))}
\* the k-th smallest element of a set of numbers
Nth(S, k) == CHOOSE x \in S : Cardinality({y \in S : y < x}) = k - 1
\* the whitespace-delimited non-empty tokens of s, in order
Words(s) ==
    [k \in 1..Cardinality(WordStarts(s)) |->
        SubSeq(s, Nth(WordStarts(s), k), Nth(WordEnds(s), k))]

\* the sum of a sequence, accumulated from the left
RunningTotal(seq) ==
    LET total[k \in 0..Len(seq)] == IF k = 0 THEN 0 ELSE total[k - 1] + seq[k]
    IN total[Len(seq)]

\* C10: for a script with a non-whitespace character the timeline onstart
\* installs has one segment per whitespace-delimited non-empty token, in
\* token order (segment k is the duration of token k), and its duration
\* is the sum of its segments.
C10_SegmentPerToken ==
    (last.op = "started" /\ WordStarts(script) # {}) =>
        /\ timelineRef # NoTimeline
        /\ timelineRef.mode = "text"
        /\ timelineRef.tokens = Words(script)
        /\ Len(timelineRef.segments) = Len(Words(script))
        /\ \A k \in 1..Len(Words(script)) :
               timelineRef.segments[k] =
                   SegmentDuration(Words(script)[k], DurationMultiplier(speechRate, speechPitch))
        /\ timelineRef.duration = RunningTotal(timelineRef.segments)

C10_Witness ==
    /\ last.op = "started"
    /\ Len(script) = MaxLen
    /\ IsSpace(script[1]) /\ script[3] = "\n"
    /\ timelineRef # NoTimeline
    /\ Len(timelineRef.segments) = 2
    /\ timelineRef.duration = timelineRef.segments[1] + timelineRef.segments[2]

-----------------------------------------------------------------------------
(* C11 *)

\* the number of alphabetic characters of a token
Alphabetic(token) == Cardinality({i \in 1..Len(token) : token[i] \in Letters})

\* the duration the specification gives a token, in time units
TokenDuration(token, multiplier) ==
    (IF Alphabetic(token) < 1 THEN 1 ELSE Alphabetic(token)) * multiplier
        + 2400
        + (IF token[Len(token)] \in {".", ",", "!", "?"} THEN 4200 ELSE 0)

\* C11: every segment of the timeline onstart installs lasts max(1,
\* alphabetic characters of its token) x multiplier + 240 ms, plus 420 ms
\* when the token ends in one of . , ! ?; and "Hello there." with the
\* multiplier 82 gives the segments 650 and 1070 and the duration 1720.
C11_SegmentDurations ==
    /\ (last.op = "started" /\ timelineRef # NoTimeline) =>
           \A k \in 1..Len(timelineRef.segments) :
               timelineRef.segments[k] =
                   TokenDuration(Words(script)[k], DurationMultiplier(speechRate, speechPitch))
    /\ LET hello == TextTimeline(HelloScript, Ms(DefaultMultiplier), now, emotion)
       IN /\ hello.segments = << 6500, 10700 >>
          /\ hello.duration = 17200

C11_Witness ==
    /\ last.op = "started"
    /\ timelineRef # NoTimeline
    /\ Len(timelineRef.segments) = 2
    /\ Alphabetic(timelineRef.tokens[1]) = 0
    /\ Alphabetic(timelineRef.tokens[2]) = 1
    /\ timelineRef.segments[1] - timelineRef.segments[2] = 4200

-----------------------------------------------------------------------------
(* C12 *)

\* the first segment whose cumulative duration is >= e
FirstCovering(segments, e) ==
    CHOOSE i \in 1..Len(segments) :
        /\ RunningTotal(SubSeq(segments, 1, i)) >= e
        /\ \A j \in 1..(i - 1) : RunningTotal(SubSeq(segments, 1, j)) < e

\* elapsed time of the active timeline, clamped to [0, duration]
ClampedElapsed ==
    IF now - timelineRef.startTime > timelineRef.duration THEN timelineRef.duration
    ELSE IF now - timelineRef.startTime < 0 THEN 0
    ELSE now - timelineRef.startTime

\* the timeline of "Hello there." with the default multiplier
HelloTimeline == TextTimeline(HelloScript, Ms(DefaultMultiplier), 0, "neutral")

\* C12: while a text timeline is active, the timelineLabel updateAnimation
\* writes is the token of the first segment whose cumulative duration is
\* >= the clamped elapsed time; the label a rescheduling tick has left is
\* the token of that segment or an earlier one; and for "Hello there."
\* with multiplier 82 the active token is "Hello" at 0 and 650 and
\* "there." at 1700 and 1720.
C12_ActiveSegment ==
    /\ (Running /\ timelineRef.mode = "text") =>
           TextPose(avatarState, timelineRef, now, now - lastBlinkRef,
                    lastEmotionPulseRef).timelineLabel
               = timelineRef.tokens[FirstCovering(timelineRef.segments, ClampedElapsed)]
    /\ (/\ last.op = "tick" /\ last.fn = "updateAnimation"
        /\ last.ran /\ ~last.done
        /\ Running /\ timelineRef.mode = "text") =>
           \E i \in 1..FirstCovering(timelineRef.segments, ClampedElapsed) :
               avatarState.timelineLabel = timelineRef.tokens[i]
    /\ ActiveToken(HelloTimeline, 0) = << "H", "e", "l", "l", "o" >>
    /\ ActiveToken(HelloTimeline, 6500) = << "H", "e", "l", "l", "o" >>
    /\ ActiveToken(HelloTimeline, 17000) = << "t", "h", "e", "r", "e", "." >>
    /\ ActiveToken(HelloTimeline, 17200) = << "t", "h", "e", "r", "e", "." >>

C12_Witness ==
    /\ last.op = "tick" /\ last.fn = "updateAnimation"
    /\ last.ran /\ ~last.done
    /\ Running /\ timelineRef.mode = "text"
    /\ now - timelineRef.startTime = ClockStep
    /\ avatarState.timelineLabel = timelineRef.tokens[2]

-----------------------------------------------------------------------------
(* C13 *)

BoundedFields ==
    {"mouthOpenness", "mouthWidth", "mouthRoundness", "blink",
     "emotionIntensity", "audioLevel"}

\* every bounded field of the pose lies in [0, 1] (thousandths)
InRange(pose) == \A f \in BoundedFields : pose[f] \in 0..1000

\* C13: the pose published in any reachable state has mouthOpenness,
\* mouthWidth, mouthRoundness, blink, emotionIntensity and audioLevel in
\* [0, 1].
C13_BoundedFieldsInRange == InRange(avatarState)

-----------------------------------------------------------------------------
(* C14 *)

\* the progress (tenths of a percent) the tick function fn publishes for
\* a timeline at the elapsed time e
ProgressBy(fn, timeline, e) ==
    IF fn = "updateAnimation"
    THEN round(Pow09(TextRatio(e, timeline.duration)), 1)
    ELSE round(Pow092(AudioRatio(e, timeline.duration)), 1)

\* elapsed times of a timeline: nine evenly spread over [0, duration] and
\* the present one
ElapsedSamples(timeline) ==
    {(k * timeline.duration) \div 8 : k \in 0..8} \cup {ClampedElapsed}

\* C14: for the active timeline the progress a tick publishes is a
\* nondecreasing function of elapsed time on [0, duration], 0 at elapsed 0
\* and 100 at elapsed = duration; and the progress a rescheduling tick
\* has left is at most what the next tick of the run will publish.
C14_ProgressNondecreasing ==
    /\ Running =>
           \A fn \in {"updateAnimation", "driveAudioTimeline"} :
               /\ \A t1, t2 \in ElapsedSamples(timelineRef) :
                      t1 < t2 => ProgressBy(fn, timelineRef, t1) <= ProgressBy(fn, timelineRef, t2)
               /\ ProgressBy(fn, timelineRef, 0) = 0
               /\ ProgressBy(fn, timelineRef, timelineRef.duration) = 1000
    /\ (last.op = "tick" /\ last.ran /\ ~last.done /\ Running) =>
           progress <= ProgressBy(last.fn, timelineRef, ClampedElapsed)

C14_Witness ==
    /\ last.op = "tick" /\ last.ran /\ ~last.done /\ Running
    /\ progress > 0
    /\ progress < ProgressBy(last.fn, timelineRef, ClampedElapsed)

-----------------------------------------------------------------------------
(* C15 *)

\* C15: a generate command records the emotion selected at that moment
\* (in the utterance, or in the suspended call of playAudioFile); the
\* timeline installed for the run carries that emotion; every tick that
\* runs writes the emotion of the timeline it reads; and pressing an
\* emotion button changes neither the published emotion nor the timeline.
C15_EmotionFixedAtStart ==
    /\ [][GenerateText =>
             \E u \in utterances' :
                 u.id = utteranceRef' /\ u.st = "queued" /\ u.emotion = emotion]_vars
    /\ [][(GenerateAudio /\ resumeQueue' # resumeQueue) =>
             resumeQueue'[Len(resumeQueue')].emotion = emotion]_vars
    /\ [][\A u \in utterances :
             UtteranceStart(u) => timelineRef'.emotion = u.emotion]_vars
    /\ [][ResumeDone => timelineRef'.emotion = Head(resumeQueue).emotion]_vars
    /\ [][\A cb \in rafQueue :
             (Tick(cb) /\ last'.ran) => avatarState'.emotion = timelineRef.emotion]_vars
    /\ [][(\E e \in EmotionChoices : SetEmotion(e)) =>
             (avatarState' = avatarState /\ timelineRef' = timelineRef)]_vars

C15_Witness ==
    /\ last.op = "tick" /\ last.fn = "driveAudioTimeline" /\ last.ran
    /\ avatarState.emotion = "neutral"
    /\ emotion = "surprised"

-----------------------------------------------------------------------------
(* C16 *)

\* C16: an explicit stop resets the last-blink timestamp, the blink
\* interval and the last emotion-pulse timestamp to their defaults.
C16_StopResetsIdlePhase ==
    last.op = "stop" =>
        /\ lastBlinkRef = 0
        /\ blinkIntervalRef = Ms(InitialBlinkInterval)
        /\ lastEmotionPulseRef = 0

-----------------------------------------------------------------------------
(* C17 *)

\* C17: after the error signal of the speech delegate during a text run
\* the timeline is discarded, no tick is pending, the pose is at rest, the
\* controller is Idle with the error status, and no utterance is left to
\* be spoken.
C17_ErrorTearsDown ==
    (last.op = "error" /\ last.wasRunning) =>
        /\ timelineRef = NoTimeline
        /\ rafQueue = {}
        /\ animationFrameRef = Undefined
        /\ PoseAtRest(avatarState)
        /\ ~isPreviewing
        /\ progress = 0
        /\ status = "Speech synthesis error"
        /\ utteranceRef = Null
        /\ \A u \in utterances : u.st \notin {"queued", "speaking"}

-----------------------------------------------------------------------------
(* C18 *)

\* the utterance of the latest text generate has not been started yet
AwaitingStart == \E u \in utterances : u.id = utteranceRef /\ u.st = "queued"

\* C18: between the text generate command and the started signal no
\* timeline exists and no tick is scheduled; the started signal for a
\* script with a token installs a text timeline whose startTime is the
\* time of the signal; and the ended signal leaves the controller Idle.
C18_TimelineStartsOnStarted ==
    /\ [](AwaitingStart => (timelineRef = NoTimeline /\ rafQueue = {}))
    /\ [][\A u \in utterances :
             (UtteranceStart(u) /\ WordStarts(u.script) # {}) =>
                 /\ timelineRef' # NoTimeline
                 /\ timelineRef'.mode = "text"
                 /\ timelineRef'.startTime = now]_vars
    /\ [](last.op = "ended" => (timelineRef = NoTimeline /\ ~isPreviewing))

-----------------------------------------------------------------------------
(* C19 *)

\* C19: a generate command in audio mode with no audio clip selected
\* creates no timeline, schedules no tick, leaves the previewing flag as it
\* was, and reports the refusal by changing the status message.
C19_RefusalIsReported ==
    [][(GenerateAudio /\ ~audioUrl) =>
          /\ timelineRef' = timelineRef
          /\ rafQueue' = rafQueue
          /\ isPreviewing' = isPreviewing
          /\ status' # status]_vars

-----------------------------------------------------------------------------
(* C20 *)

\* the mean of bins that all hold the magnitude bin, over 180, clamped
MeanLevel(bin) == IF bin >= 180 THEN 1000 ELSE (bin * 1000) \div 180

\* C20: the audioLevel a rescheduling audio tick has published is the mean
\* of the magnitudes the sampler reported divided by 180 and clamped to
\* [0, 1]: 0.5 when every bin holds 90, 1 when every bin holds 255.
C20_LevelIsMeanOverCeiling ==
    (/\ last.op = "tick" /\ last.fn = "driveAudioTimeline"
     /\ last.ran /\ ~last.done /\ Running) =>
        avatarState.audioLevel \in {MeanLevel(bin) : bin \in BinLevels}

-----------------------------------------------------------------------------
(* C21 *)

\* the script has no alphabetic character
NoLetters(s) == \A i \in 1..Len(s) : ~IsLetter(s[i])

\* C21 as stated: after the started signal for a script of only punctuation
\* and whitespace no timeline exists and no tick is scheduled.
C21_PunctuationYieldsNoTimeline ==
    (last.op = "started" /\ NoLetters(script)) =>
        (timelineRef = NoTimeline /\ rafQueue = {})

\* C21 as amended: after the started signal for a script of whitespace only
\* no timeline exists and no tick is scheduled; for a script without an
\* alphabetic character that holds punctuation, every whitespace-delimited
\* run of punctuation is a token, a timeline with one segment per token is
\* installed and a tick is scheduled.
C21_PunctuationYieldsTokens ==
    (last.op = "started" /\ NoLetters(script)) =>
        /\ WordStarts(script) = {} =>
               (timelineRef = NoTimeline /\ rafQueue = {})
        /\ WordStarts(script) # {} =>
               /\ timelineRef # NoTimeline
               /\ timelineRef.tokens = Words(script)
               /\ Len(timelineRef.segments) = Cardinality(WordStarts(script))
               /\ timelineRef.duration > 0
               /\ \E cb \in rafQueue :
                      cb.id = animationFrameRef /\ cb.fn = "updateAnimation"

C21_Witness ==
    /\ last.op = "started"
    /\ script = << ".", " ", "." >>
    /\ timelineRef # NoTimeline
    /\ Len(timelineRef.tokens) = 2
    /\ rafQueue # {}

-----------------------------------------------------------------------------
(* C22 *)

\* the blink value the text tick computes from the time since the last
\* blink
BlinkOf(sinceBlink) == MulPm(BlinkPhase(sinceBlink), BlinkPhase(sinceBlink))

\* a step in which a tick callback ran its body: every other handler
\* leaves its own name in last, and the clock stands still during a tick
TickRan == last'.op = "tick" /\ last'.ran /\ now' = now

\* C22: a tick of either mode that finds the time since the last blink
\* greater than the blink interval resets the last-blink timestamp to the
\* present and resamples the interval within [2500, 5700) ms, and otherwise
\* leaves both; the blink value a rescheduling tick publishes is the one
\* the common rule gives for the time since the last blink.
C22_IdleStepSameInBothModes ==
    [][TickRan =>
          /\ now - lastBlinkRef > blinkIntervalRef =>
                 /\ lastBlinkRef' = now
                 /\ blinkIntervalRef' \in Ms(BlinkMin)..(Ms(BlinkMin + BlinkSpan) - 1)
          /\ now - lastBlinkRef <= blinkIntervalRef =>
                 UNCHANGED << lastBlinkRef, blinkIntervalRef >>
          /\ ~last'.done =>
                 avatarState'.blink = BlinkOf(now - lastBlinkRef)]_vars

-----------------------------------------------------------------------------
(* C23 *)

\* the measured duration of the clip is not a number, or 0
DurationUnavailable == IsNaN(audio.duration) \/ audio.duration = 0

\* C23: when the awaited resume has completed and the audio run starts,
\* the timeline is an audio timeline; its duration is 8000 ms and the
\* status is the one of a started run (no error) when the measured
\* duration of the clip is not a number or 0, and otherwise the measured
\* duration (seconds times 1000, in ms).
C23_DurationFallback ==
    last.op = "resumed" =>
        /\ timelineRef # NoTimeline
        /\ timelineRef.mode = "audio"
        /\ DurationUnavailable =>
               (timelineRef.duration = Ms(8000) /\ status = "Analyzing audio")
        /\ ~DurationUnavailable => timelineRef.duration = audio.duration

C23_Witness ==
    /\ last.op = "resumed"
    /\ IsNaN(audio.duration)
    /\ timelineRef # NoTimeline
    /\ timelineRef.duration = Ms(8000)
    /\ status = "Analyzing audio"

-----------------------------------------------------------------------------
(* C24 *)

\* C24: the active timeline has duration > 0 and so has each of its
\* segments; for every position of the rate and pitch sliders the text
\* timeline of a script with a token has duration > 0; and the audio
\* timeline has duration > 0 for every measured or unavailable duration
\* of the clip.
C24_DurationPositive ==
    /\ Running =>
           /\ timelineRef.duration > 0
           /\ \A k \in 1..Len(timelineRef.segments) : timelineRef.segments[k] > 0
    /\ Tokenize(script) # << >> =>
           \A r \in SliderRates, p \in SliderPitches :
               TextTimeline(script, DurationMultiplier(r, p), now, emotion).duration > 0
    /\ \A d \in ClipDurations : AudioTimeline(d, now, emotion).duration > 0

C24_Witness ==
    /\ last.op = "started"
    /\ speechRate = 28 /\ speechPitch = 32
    /\ script = << "." >>
    /\ Running
    /\ timelineRef.duration = DurationMultiplier(28, 32) + Ms(BaseOffset + PunctuationBoost)
    /\ timelineRef.duration = 7256

-----------------------------------------------------------------------------
(* C25 *)

\* a step in which the ended or error signal of u is delivered while a
\* newer utterance is the current one
StaleSignal(u) ==
    /\ last'.op \in {"ended", "error"}
    /\ now' = now
    /\ utteranceRef # Null
    /\ u.id # utteranceRef
    /\ \A v \in utterances' : v.id # u.id

\* C25: the ended or error signal of an utterance that is no longer the
\* current one leaves the timeline, the scheduled ticks, the previewing
\* flag, the current utterance, the utterances of the synthesiser other
\* than its own and the status as they were.
C25_StaleSignalIgnored ==
    [][\A u \in utterances :
          StaleSignal(u) =>
              /\ timelineRef' = timelineRef
              /\ rafQueue' = rafQueue
              /\ isPreviewing' = isPreviewing
              /\ utteranceRef' = utteranceRef
              /\ utterances' = utterances \ {u}
              /\ status' = status]_vars

-----------------------------------------------------------------------------
(* C26 *)

\* C26: whenever a timeline is active and the previewing flag is true, a
\* tick callback is pending.
C26_ActiveTimelineHasTick ==
    (Running /\ isPreviewing) => rafQueue # {}

-----------------------------------------------------------------------------
(* C27 *)

\* C27: the previewing flag is true if and only if a timeline is active.
C27_PreviewingIffTimeline == isPreviewing <=> Running

-----------------------------------------------------------------------------
(* C28 *)

\* C28: a tick that runs its body processes a timeline of its own mode:
\* updateAnimation a text timeline, driveAudioTimeline an audio timeline.
C28_TickOfOwnMode ==
    [][TickRan =>
          /\ last'.fn = "updateAnimation" => timelineRef.mode = "text"
          /\ last'.fn = "driveAudioTimeline" => timelineRef.mode = "audio"]_vars

-----------------------------------------------------------------------------
(* C29 *)

\* the run has been torn down: timeline discarded, the tracked tick
\* cancelled, flag false, progress 0, pose at rest
TornDown ==
    /\ timelineRef = NoTimeline
    /\ animationFrameRef = Undefined
    /\ ~isPreviewing
    /\ progress = 0
    /\ PoseAtRest(avatarState)

\* C29: after a text tick that observed elapsed >= duration the run is
\* torn down, no utterance is left queued or being spoken and the current
\* utterance is cleared; and the ended signal delivered while a text
\* timeline is active with elapsed < duration tears the run down at that
\* point, with the complete status.
C29_FirstOfDurationAndEnded ==
    /\ []((last.op = "tick" /\ last.fn = "updateAnimation" /\ last.ran /\ last.done) =>
             /\ TornDown
             /\ utteranceRef = Null
             /\ \A u \in utterances : u.st \notin {"queued", "speaking"})
    /\ [][(/\ last'.op = "ended" /\ now' = now
           /\ Running /\ timelineRef.mode = "text"
           /\ now - timelineRef.startTime < timelineRef.duration) =>
              (TornDown /\ status = "Preview complete")']_vars

C29_Witness ==
    /\ last.op = "tick" /\ last.fn = "updateAnimation" /\ last.ran /\ last.done
    /\ ~audioUrl
    /\ utteranceRef = Null
    /\ \E u \in utterances : u.st = "interrupted" /\ u.script = HelloScript
    /\ timelineRef = NoTimeline

-----------------------------------------------------------------------------
(* C30 *)

\* the pose fields stopAllPlayback does not list
KeptFields == {"headTilt", "headTurn", "browLift", "shimmer", "emotion"}

\* C30: the Stop button leaves headTilt, headTurn, browLift, shimmer and
\* emotion of the pose as they were, gives the other pose fields their
\* rest values, and leaves the selected mode, the script, the selected
\* emotion and the status message unchanged.
C30_StopKeepsTheRest ==
    [][Stop =>
          /\ \A f \in KeptFields : avatarState'[f] = avatarState[f]
          /\ PoseAtRest(avatarState')
          /\ mode' = mode
          /\ script' = script
          /\ emotion' = emotion
          /\ status' = status]_vars

C30_Witness ==
    /\ last.op = "stop"
    /\ avatarState.emotion = "surprised"
    /\ emotion = "neutral"
    /\ avatarState.headTilt # defaultVisualState.headTilt
    /\ avatarState.headTurn # defaultVisualState.headTurn
    /\ avatarState.browLift # defaultVisualState.browLift
    /\ avatarState.shimmer # defaultVisualState.shimmer
    /\ PoseAtRest(avatarState)
    /\ status = "Playing preview"

====
